---- MODULE Spec2Model ----
(***************************************************************************)
(* Model of the ini-rs crate (src/src/lib.rs): the Ini struct, its parser  *)
(* build_struct, the serializer to_string, save, and the accessors get,    *)
(* set, remove and remove_section.                                         *)
(*                                                                         *)
(* A Rust String is a sequence of one-character strings.  A BTreeMap is a  *)
(* function whose DOMAIN is the set of its keys; iteration order is the    *)
(* byte order of the keys (Less).                                          *)
(*                                                                         *)
(* SpecParse runs build_struct one loop iteration at a time on every input *)
(* of at most MaxInput characters.  SpecApi makes at most MaxOps calls of  *)
(* get, set, remove, remove_section, to_string and save on a document that *)
(* Ini::new or Ini::from_string returned.                                  *)
(***************************************************************************)
EXTENDS Naturals, Sequences

VARIABLES
    pc,           \* where the caller is: "loop" (inside build_struct's for), "ok", "err", "panic", "ready"
    in_section,   \* build_struct: let mut in_section
    cur_sec,      \* build_struct: let mut cur_sec
    line,         \* build_struct: the loop variable, the line last taken from `lines`
    consumed,     \* number of input characters the loop has taken so far
    config_map,   \* Ini.config_map (ret.config_map while parsing)
    config_file,  \* Ini.config_file
    err,          \* the io::Error a call returned, or NoErr
    os,           \* std::env::consts::OS of the build
    file,         \* content of the file at the bound path, or NoFile
    op,           \* the API call last made on the document
    result,       \* what that call returned
    nops,         \* number of API calls made
    created_by    \* the constructor the document came from: "new" or "from_string"

vars == <<pc, in_section, cur_sec, line, consumed, config_map, config_file,
          err, os, file, op, result, nops, created_by>>

(***************************************************************************)
(* Bounds.                                                                 *)
(***************************************************************************)
\* Length of the text handed to the parser (line terminators included).
MaxInput == 7
\* Number of API calls made on one document.
MaxOps == 3

(***************************************************************************)
(* Characters and strings.                                                 *)
(***************************************************************************)
CONFIG_SECTION_START == "["
CONFIG_SECTION_END == "]"
CONFIG_KVP_SPLIT == "="
CONFIG_COMMENT_HASH == "#"
CONFIG_COMMENT_SEMI == ";"

NEW_LINE_WINDOWS == <<"\r", "\n">>
NEW_LINE_LINUX == <<"\n">>

\* The characters the lines given to the parser are drawn from: the two section
\* delimiters, the key-value separator, a comment marker and a whitespace
\* character (which, away from the places the parser looks at, are also the
\* ordinary characters of names, keys and values).
LineChars == {"[", "]", "=", "#", " "}

\* char::is_whitespace, on the characters of the model.
IsWhitespace(c) == c \in {" ", "\t", "\n", "\r"}

\* Byte value of a character: the order of String keys in a BTreeMap.
CharCode(c) ==
    CASE c = "\t" -> 9
      [] c = "\n" -> 10
      [] c = "\r" -> 13
      [] c = " " -> 32
      [] c = "#" -> 35
      [] c = ";" -> 59
      [] c = "=" -> 61
      [] c = "S" -> 83
      [] c = "T" -> 84
      [] c = "[" -> 91
      [] c = "]" -> 93
      [] c = "a" -> 97
      [] c = "j" -> 106
      [] c = "k" -> 107
      [] c = "v" -> 118

\* Ord for String: lexicographic on bytes.
RECURSIVE Less(_, _)
Less(s, t) ==
    IF t = << >> THEN FALSE
    ELSE IF s = << >> THEN TRUE
    ELSE IF CharCode(Head(s)) # CharCode(Head(t)) THEN CharCode(Head(s)) < CharCode(Head(t))
    ELSE Less(Tail(s), Tail(t))

\* str::starts_with with a one-character pattern.
StartsWith(s, c) == Len(s) > 0 /\ s[1] = c

\* str::contains with a one-character pattern.
Contains(s, c) == \E i \in 1..Len(s) : s[i] = c

\* str::replace(c, ""): every occurrence of c removed.
ReplaceWithEmpty(s, c) == SelectSeq(s, LAMBDA x : x # c)

\* str::trim_start: all leading whitespace removed.
RECURSIVE TrimStart(_)
TrimStart(s) ==
    IF s # << >> /\ IsWhitespace(Head(s)) THEN TrimStart(Tail(s)) ELSE s

\* str::trim_end: all trailing whitespace removed.
RECURSIVE TrimEnd(_)
TrimEnd(s) ==
    IF s # << >> /\ IsWhitespace(s[Len(s)]) THEN TrimEnd(SubSeq(s, 1, Len(s) - 1)) ELSE s

\* str::trim.
Trim(s) == TrimEnd(TrimStart(s))

\* Index of the first occurrence of c in s (s contains c).
FirstIndex(s, c) == CHOOSE i \in 1..Len(s) : s[i] = c /\ \A j \in 1..(i - 1) : s[j] # c

\* s without its i-th character (used to state properties).
RemoveAt(s, i) == SubSeq(s, 1, i - 1) \o SubSeq(s, i + 1, Len(s))

\* str::split_once with a one-character pattern: <<before, after>>.
SplitOnce(s, c) ==
    LET i == FirstIndex(s, c) IN <<SubSeq(s, 1, i - 1), SubSeq(s, i + 1, Len(s))>>

(***************************************************************************)
(* BTreeMap.                                                               *)
(***************************************************************************)
\* BTreeMap::new()
EmptyMap == [x \in {} |-> x]

\* BTreeMap::insert: the entry for k is set to v, replacing any old one.
MapInsert(m, k, v) == [x \in (DOMAIN m) \cup {k} |-> IF x = k THEN v ELSE m[x]]

\* BTreeMap::remove: the entry for k is dropped if there is one.
MapRemove(m, k) == [x \in (DOMAIN m) \ {k} |-> m[x]]

\* The keys of m in iteration order.
RECURSIVE SortedSeq(_)
SortedSeq(S) ==
    IF S = {} THEN << >>
    ELSE LET lo == CHOOSE x \in S : \A y \in S \ {x} : Less(x, y)
         IN <<lo>> \o SortedSeq(S \ {lo})

(***************************************************************************)
(* Errors and values.                                                      *)
(***************************************************************************)
NoErr == "none"
ErrKvpBeforeSection == "Config file was invalid, KVP entry found before section."
ErrKvpNoSplit == "Config file was invalid, KVP entry couldn't be split."
ErrBadLine == "Config file was invalid, line didn't hit any requirement"
ErrUnsupportedOS == "Unsupported OS"
ErrNoConfigFile == "config_file is not set. This is likely because this was created using from_string()"
\* The error of a failed file system call.
ErrIo == "io error"

\* Content of a file that does not exist (no text has this content).
NoFile == <<"no file">>
\* Value of `line` before the loop has taken a line (no line has this content).
NoLine == <<"no line">>
\* An API call and its arguments (<< >> for an argument the call does not take).
Call(name, section, key, value) ==
    [name |-> name, section |-> section, key |-> key, value |-> value]
NoOp == Call("none", << >>, << >>, << >>)

\* A returned value: kind is "unit", "none", "some" (str), "ok" (str, n) or "err" (err).
Ret(kind, e, str, n) == [kind |-> kind, err |-> e, str |-> str, n |-> n]
Unit == Ret("unit", NoErr, << >>, 0)
None == Ret("none", NoErr, << >>, 0)
Some(v) == Ret("some", NoErr, v, 0)
Err(e) == Ret("err", e, << >>, 0)
NoResult == Unit

OSes == {"linux", "windows", "macos"}

(***************************************************************************)
(* build_struct.  The parser's locals and return value are the record      *)
(* [pc, in_section, cur_sec, config_map, err].                             *)
(***************************************************************************)
ParserStart ==
    [pc |-> "loop", in_section |-> FALSE, cur_sec |-> << >>,
     config_map |-> EmptyMap, err |-> NoErr]

IsCommentLine(l) == StartsWith(l, CONFIG_COMMENT_HASH) \/ StartsWith(l, CONFIG_COMMENT_SEMI)

IsBlankLine(l) == Len(l) = 0

IsSectionLine(l) == StartsWith(l, CONFIG_SECTION_START) /\ Contains(l, CONFIG_SECTION_END)

IsKvpLine(l) == Contains(l, CONFIG_KVP_SPLIT)

\* s without the first occurrence of c, if there is one (str::replacen(c, "", 1)).
ReplaceFirstWithEmpty(s, c) == IF Contains(s, c) THEN RemoveAt(s, FirstIndex(s, c)) ELSE s

\* SectionName, removing only the first "[" and the first "]".
SectionName_first_brackets_only(l) ==
    Trim(ReplaceFirstWithEmpty(ReplaceFirstWithEmpty(l, CONFIG_SECTION_START), CONFIG_SECTION_END))

\* The section name taken from a header line.
SectionName(l) ==
    Trim(ReplaceWithEmpty(ReplaceWithEmpty(l, CONFIG_SECTION_START), CONFIG_SECTION_END))

\* SectionFound, entering the section in the map under its untrimmed name.
SectionFound_untrimmed_key(st, l) ==
    [st EXCEPT !.cur_sec = SectionName(l),
               !.config_map = MapInsert(st.config_map,
                   ReplaceWithEmpty(ReplaceWithEmpty(l, CONFIG_SECTION_START), CONFIG_SECTION_END),
                   EmptyMap),
               !.in_section = TRUE]

\* "Section found": lines 79-84.
SectionFound(st, l) ==
    [st EXCEPT !.cur_sec = SectionName(l),
               !.config_map = MapInsert(st.config_map, SectionName(l), EmptyMap),
               !.in_section = TRUE]

\* KvpFound, without the check that a section has been opened.
KvpFound_no_section_check(st, l) ==
    IF ~Contains(l, CONFIG_KVP_SPLIT)
    THEN [st EXCEPT !.pc = "err", !.err = ErrKvpNoSplit]
    ELSE IF st.cur_sec \notin DOMAIN st.config_map
    THEN [st EXCEPT !.pc = "panic"]
    ELSE LET kvp == SplitOnce(l, CONFIG_KVP_SPLIT)
         IN [st EXCEPT !.config_map[st.cur_sec] = MapInsert(@, kvp[1], kvp[2])]

\* "KVP found": lines 86-99.
KvpFound(st, l) ==
    IF ~st.in_section
    THEN [st EXCEPT !.pc = "err", !.err = ErrKvpBeforeSection]
    ELSE IF ~Contains(l, CONFIG_KVP_SPLIT)
    THEN [st EXCEPT !.pc = "err", !.err = ErrKvpNoSplit]
    ELSE IF st.cur_sec \notin DOMAIN st.config_map
    THEN [st EXCEPT !.pc = "panic"]
    ELSE LET kvp == SplitOnce(l, CONFIG_KVP_SPLIT)
         IN [st EXCEPT !.config_map[st.cur_sec] = MapInsert(@, kvp[1], kvp[2])]

\* One iteration of `for line in lines`.
LoopBody(st, l) ==
    IF IsCommentLine(l) THEN st
    ELSE IF IsBlankLine(l) THEN st
    ELSE IF IsSectionLine(l) THEN SectionFound(st, l)
    ELSE IF IsKvpLine(l) THEN KvpFound(st, l)
    ELSE [st EXCEPT !.pc = "err", !.err = ErrBadLine]

\* build_struct(lines): the loop, then Ok(ret).
RECURSIVE ForLines(_, _)
ForLines(st, lines) ==
    IF st.pc # "loop" THEN st
    ELSE IF lines = << >> THEN [st EXCEPT !.pc = "ok"]
    ELSE ForLines(LoopBody(st, Head(lines)), Tail(lines))

build_struct(lines) == ForLines(ParserStart, lines)

(***************************************************************************)
(* The parser, one line at a time.                                         *)
(***************************************************************************)
ParserState ==
    [pc |-> pc, in_section |-> in_section, cur_sec |-> cur_sec,
     config_map |-> config_map, err |-> err]

\* Characters a further line of length n takes from the input.
Cost(n) == IF line = NoLine THEN n ELSE n + 1

InitParse ==
    /\ pc = "loop"
    /\ in_section = FALSE
    /\ cur_sec = << >>
    /\ line = NoLine
    /\ consumed = 0
    /\ config_map = EmptyMap
    /\ config_file = << >>
    /\ err = NoErr
    /\ os = "linux"    \* build_struct does not read OS; the properties of to_string range over OSes
    /\ file = NoFile
    /\ op = NoOp
    /\ result = NoResult
    /\ nops = 0
    /\ created_by = "from_string"

\* The for loop takes the next line and runs its body on it.
ForLine ==
    /\ pc = "loop"
    /\ \E n \in 0..MaxInput :
         /\ consumed + Cost(n) <= MaxInput
         /\ \E l \in [1..n -> LineChars] :
              LET st == LoopBody(ParserState, l) IN
              /\ line' = l
              /\ consumed' = consumed + Cost(n)
              /\ pc' = st.pc
              /\ in_section' = st.in_section
              /\ cur_sec' = st.cur_sec
              /\ config_map' = st.config_map
              /\ err' = st.err
    /\ UNCHANGED <<config_file, os, file, op, result, nops, created_by>>

\* The lines are exhausted: Ok(ret).
ReturnOk ==
    /\ pc = "loop"
    /\ pc' = "ok"
    /\ UNCHANGED <<in_section, cur_sec, line, consumed, config_map, config_file,
                   err, os, file, op, result, nops, created_by>>

(***************************************************************************)
(* to_string, and the line reader it is read back with.                    *)
(***************************************************************************)
\* KvpText, writing each value without its leading whitespace (as get returns it).
RECURSIVE KvpText_value_trimmed(_, _, _)
KvpText_value_trimmed(section_v, keys, new_line) ==
    IF keys = << >> THEN << >>
    ELSE Head(keys) \o <<CONFIG_KVP_SPLIT>> \o TrimStart(section_v[Head(keys)]) \o new_line
         \o KvpText_value_trimmed(section_v, Tail(keys), new_line)

\* The text of one section's key-value lines, keys in iteration order.
RECURSIVE KvpText(_, _, _)
KvpText(section_v, keys, new_line) ==
    IF keys = << >> THEN << >>
    ELSE Head(keys) \o <<CONFIG_KVP_SPLIT>> \o section_v[Head(keys)] \o new_line
         \o KvpText(section_v, Tail(keys), new_line)

\* The text of the sections, in iteration order.
RECURSIVE SectionText(_, _, _)
SectionText(m, secs, new_line) ==
    IF secs = << >> THEN << >>
    ELSE <<CONFIG_SECTION_START>> \o Head(secs) \o <<CONFIG_SECTION_END>> \o new_line
         \o KvpText(m[Head(secs)], SortedSeq(DOMAIN m[Head(secs)]), new_line)
         \o SectionText(m, Tail(secs), new_line)

\* Ini::to_string: [ok, text, err].
to_string(m, o) ==
    IF o \notin {"linux", "windows"}
    THEN [ok |-> FALSE, text |-> << >>, err |-> ErrUnsupportedOS]
    ELSE LET new_line == IF o = "linux" THEN NEW_LINE_LINUX ELSE NEW_LINE_WINDOWS
         IN [ok |-> TRUE, text |-> SectionText(m, SortedSeq(DOMAIN m), new_line), err |-> NoErr]

\* One line without its terminator: a "\r" before the "\n" belongs to the terminator.
StripCr(l) == IF l # << >> /\ l[Len(l)] = "\r" THEN SubSeq(l, 1, Len(l) - 1) ELSE l

\* read_lines_with_blank_from_str: the lines of a text, blank ones kept.
RECURSIVE SplitLines(_)
SplitLines(text) ==
    IF text = << >> THEN << >>
    ELSE IF ~Contains(text, "\n") THEN <<text>>
    ELSE LET i == FirstIndex(text, "\n")
         IN <<StripCr(SubSeq(text, 1, i - 1))>> \o SplitLines(SubSeq(text, i + 1, Len(text)))

\* Ini::from_string
from_string(str) == build_struct(SplitLines(str))

NextParse == ForLine \/ ReturnOk

SpecParse == InitParse /\ [][NextParse]_vars

(***************************************************************************)
(* The document API.                                                       *)
(***************************************************************************)
\* get, cutting one leading space only.
get_cut_one_space(m, section, key) ==
    IF section \in DOMAIN m /\ key \in DOMAIN m[section]
    THEN Some(IF StartsWith(m[section][key], " ") THEN Tail(m[section][key]) ELSE m[section][key])
    ELSE None

\* Ini::get
get(m, section, key) ==
    IF section \in DOMAIN m /\ key \in DOMAIN m[section]
    THEN Some(TrimStart(m[section][key]))
    ELSE None

\* set, keeping the value of a key that is already there (or_insert on the key).
set_keeping_old_value(m, section, key, value) ==
    LET section_map == IF section \in DOMAIN m THEN m[section] ELSE EmptyMap
    IN MapInsert(m, section,
                 IF key \in DOMAIN section_map THEN section_map
                 ELSE MapInsert(section_map, key, value))

\* Ini::set: the config_map after the call.
set(m, section, key, value) ==
    LET section_map == IF section \in DOMAIN m THEN m[section] ELSE EmptyMap
    IN MapInsert(m, section, MapInsert(section_map, key, value))

\* remove, creating the section when it is missing (as its doc comment says).
remove_creating_section(m, section, key) ==
    LET section_map == IF section \in DOMAIN m THEN m[section] ELSE EmptyMap
    IN MapInsert(m, section, MapRemove(section_map, key))

\* Ini::remove: the config_map after the call.
remove(m, section, key) ==
    IF section \in DOMAIN m THEN [m EXCEPT ![section] = MapRemove(@, key)] ELSE m

\* Ini::remove_section: the config_map after the call.
remove_section(m, section) == MapRemove(m, section)

\* save, without the check that config_file is set: open fails on the empty path.
save_without_path_check(cf, m, o, f) ==
    IF cf = << >> THEN [result |-> Err(ErrIo), file |-> f]
    ELSE LET str == to_string(m, o)
         IN IF ~str.ok
            THEN [result |-> Err(str.err), file |-> << >>]
            ELSE [result |-> Ret("ok", NoErr, << >>, Len(str.text)), file |-> str.text]

\* Ini::save: [result, file], the returned value and the file's content after
\* the call.  The file system calls on the bound path succeed: open creates the
\* file or truncates it, write_all writes the whole text.
save(cf, m, o, f) ==
    IF cf = << >> THEN [result |-> Err(ErrNoConfigFile), file |-> f]
    ELSE LET str == to_string(m, o)
         IN IF ~str.ok
            THEN [result |-> Err(str.err), file |-> << >>]
            ELSE [result |-> Ret("ok", NoErr, << >>, Len(str.text)), file |-> str.text]

\* Ini::new(location), f the content of the file at location: the parser's
\* final state, with config_file bound on success.
new(f) == IF f = NoFile THEN [ParserStart EXCEPT !.pc = "ok"] ELSE build_struct(SplitLines(f))

\* The path documents made by Ini::new are bound to.
Location == <<"a">>

\* A text in the file format: a comment, one section, one pair whose value has
\* a leading space.
SampleText == <<";", "\n", "[", "S", "]", "\n", "k", "=", " ", "v", "\n">>

\* Arguments of the API calls.
ApiSections == {<<"S">>, <<"T">>}
ApiKeys == {<<"k">>, <<"j">>}
ApiValues == {<<"v">>, <<" ", "v">>, <<" ", " ", "a">>, <<"\t", "a">>}

\* A document just constructed, by Ini::new on a missing or an existing file or
\* by Ini::from_string.
InitApi ==
    /\ os \in OSes
    /\ \/ /\ created_by = "new"
          /\ \/ file = SampleText
             \/ file = NoFile
          /\ new(file).pc = "ok"
          /\ config_map = new(file).config_map
          /\ config_file = Location
       \/ /\ created_by = "from_string"
          /\ file = NoFile
          /\ \E str \in {<< >>, SampleText} :
               /\ from_string(str).pc = "ok"
               /\ config_map = from_string(str).config_map
          /\ config_file = << >>
    /\ pc = "ready"
    /\ in_section = FALSE
    /\ cur_sec = << >>
    /\ line = NoLine
    /\ consumed = 0
    /\ err = NoErr
    /\ op = NoOp
    /\ result = NoResult
    /\ nops = 0

ParserVars == <<pc, in_section, cur_sec, line, consumed, err>>

Get ==
    /\ pc = "ready" /\ nops < MaxOps
    /\ \E section \in ApiSections, key \in ApiKeys :
         /\ op' = Call("get", section, key, << >>)
         /\ result' = get(config_map, section, key)
    /\ nops' = nops + 1
    /\ UNCHANGED <<ParserVars, config_map, config_file, os, file, created_by>>

Set ==
    /\ pc = "ready" /\ nops < MaxOps
    /\ \E section \in ApiSections, key \in ApiKeys, value \in ApiValues :
         /\ op' = Call("set", section, key, value)
         /\ config_map' = set(config_map, section, key, value)
    /\ result' = Unit
    /\ nops' = nops + 1
    /\ UNCHANGED <<ParserVars, config_file, os, file, created_by>>

Remove ==
    /\ pc = "ready" /\ nops < MaxOps
    /\ \E section \in ApiSections, key \in ApiKeys :
         /\ op' = Call("remove", section, key, << >>)
         /\ config_map' = remove(config_map, section, key)
    /\ result' = Unit
    /\ nops' = nops + 1
    /\ UNCHANGED <<ParserVars, config_file, os, file, created_by>>

RemoveSection ==
    /\ pc = "ready" /\ nops < MaxOps
    /\ \E section \in ApiSections :
         /\ op' = Call("remove_section", section, << >>, << >>)
         /\ config_map' = remove_section(config_map, section)
    /\ result' = Unit
    /\ nops' = nops + 1
    /\ UNCHANGED <<ParserVars, config_file, os, file, created_by>>

ToString ==
    /\ pc = "ready" /\ nops < MaxOps
    /\ op' = Call("to_string", << >>, << >>, << >>)
    /\ result' = LET str == to_string(config_map, os)
                 IN IF str.ok THEN Ret("ok", NoErr, str.text, 0) ELSE Err(str.err)
    /\ nops' = nops + 1
    /\ UNCHANGED <<ParserVars, config_map, config_file, os, file, created_by>>

Save ==
    /\ pc = "ready" /\ nops < MaxOps
    /\ op' = Call("save", << >>, << >>, << >>)
    /\ result' = save(config_file, config_map, os, file).result
    /\ file' = save(config_file, config_map, os, file).file
    /\ nops' = nops + 1
    /\ UNCHANGED <<ParserVars, config_map, config_file, os, created_by>>

NextApi == Get \/ Set \/ Remove \/ RemoveSection \/ ToString \/ Save

SpecApi == InitApi /\ [][NextApi]_vars

(***************************************************************************)
(* Properties of the parser (SpecParse).                                   *)
(***************************************************************************)
\* The step is one iteration of build_struct's loop, on the line line'.
TookLine == pc = "loop" /\ (line' # line \/ consumed' # consumed)

\* r is v without leading whitespace: a suffix of v that does not start with
\* whitespace, all of what was cut off being whitespace.
IsLeadingWhitespaceCut(v, r) ==
    \E n \in 0..Len(v) :
        /\ r = SubSeq(v, n + 1, Len(v))
        /\ \A i \in 1..n : IsWhitespace(v[i])
        /\ (r = << >> \/ ~IsWhitespace(r[1]))

\* r is v without surrounding whitespace.
IsSurroundingWhitespaceCut(v, r) ==
    \E n \in 0..Len(v), e \in 0..Len(v) :
        /\ n <= e
        /\ r = SubSeq(v, n + 1, e)
        /\ \A i \in (1..n) \cup ((e + 1)..Len(v)) : IsWhitespace(v[i])
        /\ (r = << >> \/ (~IsWhitespace(r[1]) /\ ~IsWhitespace(r[Len(r)])))

\* C1: a document the parser returned, written by to_string and parsed again,
\* gives a document with the same config_map (on every OS to_string supports).
C1_RoundTrip ==
    pc = "ok" =>
        \A o \in OSes :
            to_string(config_map, o).ok =>
                LET again == from_string(to_string(config_map, o).text)
                IN again.pc = "ok" /\ again.config_map = config_map

\* C1 witness: a parsed document with a section holding a pair whose value has a
\* leading space, written with "\r\n" line ends and read back equal.
C1_Witness ==
    /\ pc = "ok"
    /\ \E s \in DOMAIN config_map : \E k \in DOMAIN config_map[s] :
         StartsWith(config_map[s][k], " ")
    /\ to_string(config_map, "windows").ok
    /\ from_string(to_string(config_map, "windows").text).config_map = config_map

\* C2: when the parser reads a section header whose name is already a section
\* of the document, that section is reused: the pairs it holds stay.
C2_SectionReused ==
    [][(TookLine /\ IsSectionLine(line') /\ cur_sec' \in DOMAIN config_map)
          => (cur_sec' \in DOMAIN config_map'
              /\ config_map'[cur_sec'] = config_map[cur_sec'])]_vars

\* C5: the parser starts in NoSection; a key-value line read in NoSection ends
\* the parse with the "KVP entry found before section" error, after any number
\* of comment and blank lines, which change nothing; no line is read after an
\* error; a section header puts the parser InSection, where it stays.
C5_ParserStateMachine ==
    /\ (line = NoLine => ~in_section)
    /\ [][/\ TookLine =>
               /\ (~IsCommentLine(line') /\ ~IsBlankLine(line') /\ ~IsSectionLine(line')
                     /\ IsKvpLine(line') /\ ~in_section)
                    => (pc' = "err" /\ err' = ErrKvpBeforeSection)
               /\ (IsCommentLine(line') \/ IsBlankLine(line'))
                    => (pc' = "loop" /\ in_section' = in_section /\ config_map' = config_map)
               /\ (~IsCommentLine(line') /\ IsSectionLine(line')) => (pc' = "loop" /\ in_section')
               /\ in_section => in_section'
          /\ pc = "err" => (pc' = "err" /\ line' = line /\ config_map' = config_map)]_vars

\* C5 witness: the error was returned for a key-value line that came after
\* earlier (comment or blank) lines.
C5_Witness ==
    /\ pc = "err" /\ err = ErrKvpBeforeSection
    /\ ~in_section /\ IsKvpLine(line)
    /\ consumed > Len(line) + 1

\* C8 (as claimed): the name recorded for a section header line is the line
\* without its leading "[" and without one of its "]", trimmed.
C8_OneBracketEachRemoved ==
    (pc \in {"loop", "ok"} /\ line # NoLine /\ IsSectionLine(line)) =>
        \E i \in 1..(Len(line) - 1) :
            /\ Tail(line)[i] = CONFIG_SECTION_END
            /\ IsSurroundingWhitespaceCut(RemoveAt(Tail(line), i), cur_sec)

\* C8 (amended): the name recorded for a section header line is the line
\* without any of its "[" and "]" characters, trimmed.
C8_AllBracketsRemoved ==
    (pc \in {"loop", "ok"} /\ line # NoLine /\ IsSectionLine(line)) =>
        IsSurroundingWhitespaceCut(
            SelectSeq(line, LAMBDA c : c \notin {CONFIG_SECTION_START, CONFIG_SECTION_END}),
            cur_sec)

\* C8 witness: a header line with a second "[" and a second "]" was read, and
\* the recorded name holds neither.
C8_Witness ==
    /\ pc = "loop" /\ in_section
    /\ line = <<"[", "[", "#", "]", "]">>
    /\ cur_sec = <<"#">>

\* C9: while parsing, in_section implies that cur_sec is a section of the
\* document, and the parser never panics: it is in its loop or has returned.
C9_CurrentSectionExists ==
    /\ in_section => cur_sec \in DOMAIN config_map
    /\ pc \in {"loop", "ok", "err"}

\* C9 witness: a key-value pair was stored into the current section.
C9_Witness ==
    /\ pc = "loop" /\ in_section
    /\ IsKvpLine(line) /\ ~IsSectionLine(line)
    /\ cur_sec \in DOMAIN config_map
    /\ DOMAIN config_map[cur_sec] # {}

(***************************************************************************)
(* Properties of the document API (SpecApi).                               *)
(***************************************************************************)
\* The step is the API call `name`.
Called(name) == nops' = nops + 1 /\ op'.name = name

\* The (section, key) entry is in m.
Present(m, section, key) == section \in DOMAIN m /\ key \in DOMAIN m[section]

\* v without one leading space character, if it has one.
OneLeadingSpaceCut(v) == IF v # << >> /\ v[1] = " " THEN Tail(v) ELSE v

\* get leaves the document, its path and the file alone.
GetFrame == config_map' = config_map /\ config_file' = config_file /\ file' = file

\* C3 (as claimed): get returns none for an absent section or key, and else
\* the stored value without exactly one leading space; it changes nothing.
C3_GetCutsOneSpace ==
    [][Called("get") =>
         /\ GetFrame
         /\ IF Present(config_map, op'.section, op'.key)
            THEN result' = Some(OneLeadingSpaceCut(config_map[op'.section][op'.key]))
            ELSE result' = None]_vars

\* C3 (amended): get returns none for an absent section or key, and else the
\* stored value without any of its leading whitespace; it changes nothing.
C3_GetCutsLeadingWhitespace ==
    [][Called("get") =>
         /\ GetFrame
         /\ IF Present(config_map, op'.section, op'.key)
            THEN /\ result'.kind = "some"
                 /\ IsLeadingWhitespaceCut(config_map[op'.section][op'.key], result'.str)
            ELSE result' = None]_vars

\* C3 witness: get was called on a value stored with two leading spaces and
\* returned it without both.
C3_Witness ==
    /\ op.name = "get"
    /\ Present(config_map, op.section, op.key)
    /\ config_map[op.section][op.key] = <<" ", " ", "a">>
    /\ result = Some(<<"a">>)

\* C4 (as claimed): after set(S, k, v) the section S exists and a get(S, k)
\* that follows at once returns v.
C4_SetThenGet ==
    [][(op.name = "set" /\ Called("get") /\ op'.section = op.section /\ op'.key = op.key)
          => (op.section \in DOMAIN config_map /\ result' = Some(op.value))]_vars

\* C4 (amended): after set(S, k, v) the section S exists and a get(S, k) that
\* follows at once returns v without its leading whitespace.
C4_SetThenGetCut ==
    [][(op.name = "set" /\ Called("get") /\ op'.section = op.section /\ op'.key = op.key)
          => /\ op.section \in DOMAIN config_map
             /\ result'.kind = "some"
             /\ IsLeadingWhitespaceCut(op.value, result'.str)]_vars

\* C4 witness: set created the section T (no constructed document has it) and
\* the get that followed returned the value.
C4_Witness ==
    /\ nops = 2 /\ op = Call("get", <<"T">>, <<"k">>, << >>)
    /\ Present(config_map, <<"T">>, <<"k">>)
    /\ config_map[<<"T">>][<<"k">>] = <<"v">>
    /\ result = Some(<<"v">>)

\* C6: on a document made by from_string, whatever calls came before, save
\* returns the error for a missing config_file and leaves the file as it was.
C6_SaveWithoutPath ==
    [][(created_by = "from_string" /\ Called("save"))
          => (result' = Err(ErrNoConfigFile) /\ file' = file)]_vars

\* C6 witness: save was called on a from_string document after set calls, and
\* there is still no file.
C6_Witness ==
    /\ created_by = "from_string" /\ op.name = "save" /\ nops = MaxOps
    /\ <<"T">> \in DOMAIN config_map
    /\ result = Err(ErrNoConfigFile)
    /\ file = NoFile

C10_FailedSaveKeepsFile ==
    [][(Called("save") /\ result'.kind = "err") => file' = file]_vars

====
